---- MODULE Spec2Model ----
(***************************************************************************)
(* The autoReply plugin (src/autoReply/index.tsx): the message-to-reply    *)
(* control loop.  Module-level flags isStarted / deBounce / activeChannelId*)
(* the plugin object's hasShownError, the user-editable settings.store,    *)
(* the host's MessageStore, and the suspended handleMessage invocations    *)
(* (one record per invocation that passed the gate, with the await it is   *)
(* parked on).  JavaScript is single-threaded: everything a handler does   *)
(* between two awaits that need the event loop (a REST call, a provider    *)
(* call, a timer) is one atomic action.                                    *)
(*                                                                         *)
(* Spec: the whole plugin.  FairSpec: the plugin between one start() and   *)
(* stop(), under fairness.  PacerSpec: the handler from the                *)
(* point where the reply is in, for every short reply.  AdapterSpec: one   *)
(* call of makeAICall or of the native helper makeAIRequest                *)
(* (src/unnamed/part_000).  HistSpec: one call of getMessageHistory.       *)
(* AlertSpec: failing cycles against a clock.                              *)
(***************************************************************************)
EXTENDS Integers, Sequences, FiniteSets, TLC

VARIABLES
    settings,         \* settings.store
    isStarted,        \* var isStarted ("armed")
    deBounce,         \* var deBounce  ("busy")
    activeChannelId,  \* let activeChannelId
    hasShownError,    \* this.hasShownError (its reset timer is pending iff TRUE)
    subscribed,       \* the handlers of the latest start() are subscribed, chat button added
    leaked,           \* handler pairs of earlier start() calls that stop() cannot reach
    store,            \* MessageStore: channel -> messages, oldest first
    cycles,           \* suspended handleMessage invocations past the gate
    clock,            \* seconds since the last "AutoReply Error" alert, up to AlertDelay
    probe             \* one call of a function looked at on its own

vars == <<settings, isStarted, deBounce, activeChannelId, hasShownError,
          subscribed, leaked, store, cycles, clock, probe>>

----------------------------------------------------------------------------
(* Bounds of the model *)

\* Total number of messages the MessageStore holds over all channels.
MaxStore == 2

\* Handler pairs left subscribed by start() calls that no stop() followed.
MaxLeaked == 1

\* Longest provider reply enumerated by the pacer specification.
MaxReplyLen == 4

\* Longest history handed to the provider adapter on its own.
MaxTurns == 3

\* Seconds by which the clock of the alert specification advances.
TickSeconds == 20

\* Most messages in the channel, and largest historyLength, handed to the
\* history assembler on its own.
MaxMsgs == 3
MaxWindow == 3

----------------------------------------------------------------------------
(* Domains *)

Null == "null"
Channels == {"c1", "c2"}
SelfId == "self"            \* window.DiscordNative.crashReporter.getMetadata().user_id
NoAuthor == ""              \* message?.message?.author?.id missing
EventAuthors == {SelfId, "other", NoAuthor}

\* Text is a sequence of characters; the alphabet has two letters, the
\* space and the line feed.
Chars == {"a", "b", " ", "\n"}
Whitespace == {" ", "\n"}

StringsUpTo(n) == UNION {[1..k -> Chars] : k \in 0..n}

\* Contents of inbound messages: whitespace-only and text.  (The empty
\* string takes the same branch as the whitespace-only one in every test
\* the code makes: !message || message.trim() === "", text.trim() !== "".)
MsgContents == {<<" ">>, <<"a">>}

\* Provider replies the main specification draws from: whitespace only,
\* one line, two paragraphs, separator only.  (The pacer specification
\* enumerates every string up to MaxReplyLen.)
Replies == {<<" ">>, <<"a">>, <<"a", "\n", "\n", "b">>, <<"\n", "\n">>}

Providers == {"gemini", "deepseek", "openai", "bogus"}
\* The provider settings the main specification switches between: the SDK
\* provider, a fetch provider and an unknown identifier.
MainProviders == {"gemini", "deepseek", "bogus"}
KnownProviders == {"gemini", "deepseek", "openai"}
ApiKeys == {"", "key"}
HistoryLengthDefault == 10

\* setTimeout(..., 1 * 60 * 1000): seconds until hasShownError is reset.
AlertDelay == 60

\* No call is looked at on its own.
NoProbe == [fn |-> "none"]
CustomInstructions == <<"i">>

\* Outcomes of the awaited provider call other than a text result.
ProviderErrors == {"http", "network", "other"}

----------------------------------------------------------------------------
(* Strings *)

IsBlank(s) == \A i \in 1..Len(s) : s[i] \in Whitespace

\* String.prototype.trim
Trim(s) ==
    IF IsBlank(s) THEN <<>>
    ELSE LET first == CHOOSE i \in 1..Len(s) :
                          /\ s[i] \notin Whitespace
                          /\ \A j \in 1..(i - 1) : s[j] \in Whitespace
             last  == CHOOSE i \in 1..Len(s) :
                          /\ s[i] \notin Whitespace
                          /\ \A j \in (i + 1)..Len(s) : s[j] \in Whitespace
         IN  SubSeq(s, first, last)

Max(S) == CHOOSE x \in S : \A y \in S : y <= x

Min(a, b) == IF a <= b THEN a ELSE b

\* Index of the last character of the whitespace run that starts at i
\* (i - 1 when s[i] is no whitespace or i is past the end).
WsRunEnd(s, i) ==
    Max({i - 1} \cup {j \in i..Len(s) : \A k \in i..j : s[k] \in Whitespace})

\* The match of /\n\s*\n+/ anchored at position q: the index of its last
\* character, or 0 when there is none.  \s* is greedy and backtracks until
\* a line feed follows, so the match ends at the last line feed of the
\* whitespace run after s[q].
MatchEnd(s, q) ==
    IF q > Len(s) \/ s[q] # "\n" THEN 0
    ELSE LET r == WsRunEnd(s, q + 1)
             ends == {j \in (q + 1)..r : s[j] = "\n"}
         IN  IF ends = {} THEN 0 ELSE Max(ends)

\* /\n\s*\n+/.test(reply)
HasSeparator(s) == \E q \in 1..Len(s) : MatchEnd(s, q) > 0

\* reply.split(/\n\s*\n+/): p is the start of the current piece, q the
\* position where a match is tried.
RECURSIVE SplitFrom(_, _, _)
SplitFrom(s, p, q) ==
    IF q > Len(s) THEN <<SubSeq(s, p, Len(s))>>
    ELSE LET e == MatchEnd(s, q)
         IN  IF e = 0 THEN SplitFrom(s, p, q + 1)
             ELSE <<SubSeq(s, p, q - 1)>> \o SplitFrom(s, e + 1, e + 1)

Split(s) == SplitFrom(s, 1, 1)

----------------------------------------------------------------------------
(* History assembler *)

Role(author) == IF author = SelfId THEN "model" ELSE "user"

\* Array.prototype.slice(-n): the last n elements; slice(-0) is slice(0),
\* the whole array.
SliceLast(msgs, n) ==
    IF n = 0 \/ n >= Len(msgs) THEN msgs
    ELSE SubSeq(msgs, Len(msgs) - n + 1, Len(msgs))

NonEmptyTurn(t) == Trim(t.text) # <<>>

\* messages.map(msg => ({role: ..., parts: [{text: msg.content}]}))
MapTurns(messages) ==
    [i \in 1..Len(messages) |-> [role |-> Role(messages[i].author),
                                 text |-> messages[i].content]]

\* getMessageHistory without the rewrite of the first turn's role.
getMessageHistoryNoRewrite(msgs, n) ==
    LET filtered == SelectSeq(MapTurns(SliceLast(msgs, n)), NonEmptyTurn)
    IN  IF filtered = <<>> THEN [ok |-> FALSE, turns |-> <<>>]
        ELSE [ok |-> TRUE, turns |-> filtered]

\* getMessageHistory: ok = FALSE when reading msgdict[0].role throws
\* because no turn is left after the filter.
getMessageHistory(msgs, n) ==
    LET messages == SliceLast(msgs, n)
        msgdict  == MapTurns(messages)
        filtered == SelectSeq(msgdict, NonEmptyTurn)
    IN  IF filtered = <<>> THEN [ok |-> FALSE, turns |-> <<>>]
        ELSE [ok |-> TRUE,
              turns |-> [filtered EXCEPT ![1].role = "user"]]

\* Array.prototype.pop, for its effect on the array.
Pop(a) == IF a = <<>> THEN a ELSE SubSeq(a, 1, Len(a) - 1)

----------------------------------------------------------------------------
(* Provider adapter *)

\* An error message is a sequence of text fragments; concatenation and
\* template literals are \o.
NoError == <<>>
MissingKeyMessage == <<"API key is required">>
EmptyContentMessage == <<"Empty message content">>
UnknownProviderMessage == <<"Unknown provider">>
ApiFailedMessage(statusText) == <<"API request failed: ", statusText>>
\* TypeError of reading a property of undefined: msgdict[0].role on an empty
\* array, data.choices[0].message on an empty choice list.
NoFirstTurnMessage ==
    <<"Cannot read properties of undefined (reading 'role')">>
NoFirstChoiceMessage ==
    <<"Cannot read properties of undefined (reading 'message')">>

Err(name, message) == [name |-> name, message |-> message]

\* String(error) of an Error object
ErrorString(e) == <<e.name, ": ">> \o e.message

\* Fragments that contain one of "fetch", "network", "CORS", "blocked",
\* "CSP" (String.prototype.includes is case-sensitive).
CspFragments == {"Failed to fetch"}

IsCspMessage(message) == \E i \in DOMAIN message : message[i] \in CspFragments

\* What the awaited SDK or fetch call can give: the SDK's result text, an
\* HTTP response (ok flag, status text, the contents of the choices its
\* body holds), or a thrown error.  What the awaited response.json() can
\* give: the parsed body, or a thrown error.
SdkResult(text) ==
    [kind |-> "sdk", ok |-> TRUE, statusText |-> "", choices |-> <<text>>,
     thrown |-> Err("", NoError)]
HttpResponse(ok, statusText, choices) ==
    [kind |-> "http", ok |-> ok, statusText |-> statusText, choices |-> choices,
     thrown |-> Err("", NoError)]
JsonBody(choices) ==
    [kind |-> "json", ok |-> TRUE, statusText |-> "", choices |-> choices,
     thrown |-> Err("", NoError)]
Thrown(e) ==
    [kind |-> "throw", ok |-> FALSE, statusText |-> "", choices |-> <<>>,
     thrown |-> e]

StatusTexts == {"Unauthorized", "Forbidden"}
ThrownErrors == {Err("TypeError", <<"Failed to fetch">>), Err("Error", <<"boom">>)}
ChoiceLists == {<<>>, <<<<"a">>>>, <<<<" ">>, <<"a">>>>}

ResponsesOf(provider) ==
    {Thrown(e) : e \in ThrownErrors} \cup
    IF provider = "gemini"
    THEN {SdkResult(t) : t \in {<<"a">>, <<" ">>}}
    ELSE {HttpResponse(TRUE, "OK", c) : c \in ChoiceLists} \cup
         {HttpResponse(FALSE, st, c) : st \in StatusTexts, c \in ChoiceLists}

\* response.json() of a body that is not JSON.
BodyError == Err("SyntaxError", <<"Unexpected token '<'">>)

\* What response.json() gives for the response resp: its choices, or a
\* thrown error when the body does not parse.
BodiesOf(resp) == {JsonBody(resp.choices), Thrown(BodyError)}

\* An ok response whose body is still to be read.
OkResponse == HttpResponse(TRUE, "OK", <<>>)

\* The provider answers with the text `reply`: the SDK's result for
\* gemini, the parsed body for deepseek and openai.
ReplyResponse(provider, reply) ==
    IF provider = "gemini" THEN SdkResult(reply)
    ELSE JsonBody(<<reply>>)

\* The provider call fails: a non-ok response (which the SDK turns into a
\* thrown error), a failed or blocked request, anything else.
FailResponse(provider, kind) ==
    CASE kind = "http" ->
             IF provider = "gemini" THEN Thrown(Err("Error", <<"Unauthorized">>))
             ELSE HttpResponse(FALSE, "Unauthorized", <<>>)
      [] kind = "network" -> Thrown(Err("TypeError", <<"Failed to fetch">>))
      [] kind = "other" -> Thrown(Err("Error", <<"boom">>))

NoRequest == [provider |-> "", apiKey |-> "", turns |-> <<>>, message |-> <<>>]

\* role: provider === "deepseek" && msg.role === "model" ? "assistant" : msg.role
WireRole(provider, role) ==
    IF provider = "deepseek" /\ role = "model" THEN "assistant" ELSE role

\* The request that goes out: startChat({history}) + sendMessage(message)
\* for gemini, the messages array of the POST body for deepseek and openai.
BuildRequest(provider, apiKey, history, message) ==
    IF provider = "gemini"
    THEN [provider |-> provider, apiKey |-> apiKey, turns |-> history,
          message |-> message]
    ELSE [provider |-> provider, apiKey |-> apiKey,
          turns |-> Append([i \in 1..Len(history) |->
                               [role |-> WireRole(provider, history[i].role),
                                text |-> history[i].text]],
                           [role |-> "user", text |-> message]),
          message |-> <<>>]

\* What a call gives at a point where it stops: kind "await" with the
\* request that is out, "json" when it waits for response.json(), "return"
\* with the text, "throw" with the error's message; csp counts
\* handleCSPError dialogs.
Result(kind, success, text, error) ==
    [kind |-> kind, success |-> success, text |-> text, error |-> error,
     request |-> NoRequest, csp |-> 0]

Await(request) ==
    [Result("await", FALSE, <<>>, NoError) EXCEPT !.request = request]

\* makeAICall that looks at the API key only after the provider branches.
makeAICallStartKeyLast(provider, apiKey, history, message) ==
    IF provider \in KnownProviders
    THEN Await(BuildRequest(provider, apiKey, history, message))
    ELSE IF apiKey = "" THEN Result("throw", FALSE, <<>>, MissingKeyMessage)
         ELSE Result("return", TRUE, <<>>, NoError)

\* makeAICall up to its first await.
makeAICallStart(provider, apiKey, history, message) ==
    IF apiKey = "" THEN Result("throw", FALSE, <<>>, MissingKeyMessage)
    ELSE IF provider \in KnownProviders
         THEN Await(BuildRequest(provider, apiKey, history, message))
         ELSE Result("return", TRUE, <<>>, NoError)   \* "No such provider!"

\* makeAICall's catch without the CSP dialog.
RethrowNoDialog(provider, e) == Result("throw", FALSE, <<>>, e.message)

\* makeAICall's catch: the CSP dialog when the message has a keyword, then
\* the error is thrown on.
Rethrow(provider, e) ==
    [Result("throw", FALSE, <<>>, e.message) EXCEPT
        !.csp = IF IsCspMessage(e.message) /\ provider # "" THEN 1 ELSE 0]

\* makeAICall that does not look at response.ok.
makeAICallSettleIgnoringStatus(provider, resp) ==
    IF resp.kind = "throw" THEN Rethrow(provider, resp.thrown)
    ELSE IF provider = "gemini"
         THEN Result("return", TRUE, resp.choices[1], NoError)
         ELSE Result("json", FALSE, <<>>, NoError)

\* makeAICall from the point where the SDK or fetch call settled, up to
\* its end or to `await response.json()`.
makeAICallSettle(provider, resp) ==
    IF resp.kind = "throw" THEN Rethrow(provider, resp.thrown)
    ELSE IF provider = "gemini"
         THEN Result("return", TRUE, resp.choices[1], NoError)
         ELSE IF ~resp.ok
              THEN Rethrow(provider, Err("Error", ApiFailedMessage(resp.statusText)))
              ELSE Result("json", FALSE, <<>>, NoError)

\* makeAICall from the point where response.json() settled.
makeAICallBody(provider, body) ==
    IF body.kind = "throw" THEN Rethrow(provider, body.thrown)
    ELSE IF body.choices = <<>>
         THEN Rethrow(provider, Err("TypeError", NoFirstChoiceMessage))
         ELSE Result("return", TRUE, body.choices[1], NoError)

\* makeAIRequest (the native helper) up to its first await: its value is
\* {success, data} or {success, error}.
makeAIRequestStart(provider, apiKey, history, message) ==
    IF provider \in KnownProviders
    THEN Await(BuildRequest(provider, apiKey, history, message))
    ELSE Result("return", FALSE, <<>>, UnknownProviderMessage)

\* makeAIRequest without its catch: a thrown error rejects the promise.
makeAIRequestSettleNoCatch(provider, resp) ==
    IF resp.kind = "throw"
    THEN Result("throw", FALSE, <<>>, resp.thrown.message)
    ELSE IF provider = "gemini"
         THEN Result("return", TRUE, resp.choices[1], NoError)
         ELSE IF ~resp.ok
              THEN Result("return", FALSE, <<>>, ApiFailedMessage(resp.statusText))
              ELSE Result("json", FALSE, <<>>, NoError)

\* makeAIRequest from the point where the SDK or fetch call settled, up to
\* its end or to `await response.json()`.
makeAIRequestSettle(provider, resp) ==
    IF resp.kind = "throw"
    THEN Result("return", FALSE, <<>>, ErrorString(resp.thrown))
    ELSE IF provider = "gemini"
         THEN Result("return", TRUE, resp.choices[1], NoError)
         ELSE IF ~resp.ok
              THEN Result("return", FALSE, <<>>, ApiFailedMessage(resp.statusText))
              ELSE Result("json", FALSE, <<>>, NoError)

\* makeAIRequest from the point where response.json() settled.
makeAIRequestBody(provider, body) ==
    IF body.kind = "throw"
    THEN Result("return", FALSE, <<>>, ErrorString(body.thrown))
    ELSE IF body.choices = <<>>
         THEN Result("return", FALSE, <<>>,
                     ErrorString(Err("TypeError", NoFirstChoiceMessage)))
         ELSE Result("return", TRUE, body.choices[1], NoError)

----------------------------------------------------------------------------
(* One handleMessage invocation past the gate *)

NewCycle(ch, content) ==
    [pc        |-> "gate",
     channelId |-> ch,          \* message.channelId
     content   |-> content,     \* message.message.content
     trigger   |-> 0,           \* position of the event's message in its channel
     outcome   |-> "none",      \* "reply" once generateReply returned, "error" once the catch ran
     reply     |-> <<>>,
     parts     |-> <<>>,        \* parts of the split reply not yet visited by the loop
     request   |-> NoRequest,   \* the provider request in flight
     calls     |-> 0,           \* provider requests issued
     csp       |-> 0,           \* handleCSPError dialogs shown
     error     |-> NoError,     \* message of the error the catch block got
     alerted   |-> FALSE,       \* this invocation showed the "AutoReply Error" alert
     typings   |-> {},          \* channels the typing indicators went to
     sent      |-> <<>>]        \* MessageActions.sendMessage calls, in order

\* A send addressed to the focused channel instead of the message's.
OutboundToFocused(ch, content) ==
    [channelId |-> activeChannelId, content |-> content]

Outbound(ch, content) == [channelId |-> ch, content |-> content]

\* finally: the cooldown timer is started
Finally(cy) == [cy EXCEPT !.pc = "cooldown"]

\* Catch without the finally block: the invocation ends in the catch.
CatchNoFinally(cy, shown) ==
    [cy EXCEPT !.pc = "failed", !.outcome = "error", !.alerted = ~shown,
               !.request = NoRequest]

\* Catch that shows the alert whether or not hasShownError is set.
CatchAlwaysAlerting(cy, shown) ==
    Finally([cy EXCEPT !.outcome = "error", !.alerted = TRUE,
                      !.request = NoRequest])

\* catch in handleMessage, followed by finally
Catch(cy, shown) ==
    Finally([cy EXCEPT !.outcome = "error", !.alerted = ~shown,
                      !.request = NoRequest])

\* throw: the error on its way to handleMessage's catch.
Throw(cy, message) == [cy EXCEPT !.error = message]

\* TypingThen that issues the typing request without awaiting it.
TypingThenNoAwait(cy, cfg, typingPc, delayPc) ==
    IF cfg.showTyping
    THEN [cy EXCEPT !.pc = delayPc, !.typings = @ \cup {cy.channelId}]
    ELSE [cy EXCEPT !.pc = delayPc]

\* if (settings.store.showTyping) await setTypingStatus(...): the typing
\* request is issued and the invocation waits for it, or goes on to the
\* timer at once.
TypingThen(cy, cfg, typingPc, delayPc) ==
    IF cfg.showTyping
    THEN [cy EXCEPT !.pc = typingPc, !.typings = @ \cup {cy.channelId}]
    ELSE [cy EXCEPT !.pc = delayPc]

\* The loop going through the parts from the last to the first.
RECURSIVE SplitLoopLastFirst(_, _)
SplitLoopLastFirst(cy, cfg) ==
    IF cy.parts = <<>> THEN Finally(cy)
    ELSE LET last == cy.parts[Len(cy.parts)]
             rest == SubSeq(cy.parts, 1, Len(cy.parts) - 1)
         IN  IF Trim(last) = <<>>
             THEN SplitLoopLastFirst([cy EXCEPT !.parts = rest], cfg)
             ELSE TypingThen([cy EXCEPT !.parts = <<last>> \o rest], cfg,
                             "partTyping", "partDelay")

\* for (const part of parts): blank parts are skipped; the loop's end is
\* the return inside try.
RECURSIVE SplitLoop(_, _)
SplitLoop(cy, cfg) ==
    IF cy.parts = <<>> THEN Finally(cy)
    ELSE IF Trim(Head(cy.parts)) = <<>>
         THEN SplitLoop([cy EXCEPT !.parts = Tail(@)], cfg)
         ELSE TypingThen(cy, cfg, "partTyping", "partDelay")

\* handleMessage from the point where generateReply returned `reply`.
OnReply(cy, cfg, reply) ==
    LET got == [cy EXCEPT !.outcome = "reply", !.reply = reply,
                         !.request = NoRequest]
    IN  IF HasSeparator(reply)
        THEN SplitLoop([got EXCEPT !.parts = Split(reply)], cfg)
        ELSE TypingThen(got, cfg, "sendTyping", "sendDelay")

\* Settled that sends the request once more after a first failure.
SettledRetrying(cy, cfg, shown, r) ==
    IF r.kind = "throw" /\ cy.pc \in {"provider", "body"} /\ cy.calls < 2
    THEN [cy EXCEPT !.pc = "provider", !.calls = @ + 1]
    ELSE IF r.kind = "throw"
         THEN Catch([Throw(cy, r.error) EXCEPT !.csp = @ + r.csp], shown)
         ELSE IF r.kind = "json"
              THEN [cy EXCEPT !.pc = "body"]
              ELSE OnReply(cy, cfg, r.text)

\* handleMessage from the point where makeAICall threw, returned or went
\* on to wait for response.json() (r).
Settled(cy, cfg, shown, r) ==
    IF r.kind = "throw"
    THEN Catch([Throw(cy, r.error) EXCEPT !.csp = @ + r.csp], shown)
    ELSE IF r.kind = "json"
         THEN [cy EXCEPT !.pc = "body"]
         ELSE OnReply(cy, cfg, r.text)

\* makeAICall after which the handler sends before the request settles.
makeAICallSendingEarly(cy, cfg, shown, history) ==
    LET r == makeAICallStart(cfg.aiProvider, cfg.apiKey, history, cy.content)
    IN  IF r.kind = "await"
        THEN [cy EXCEPT !.pc = "provider", !.request = r.request,
                        !.calls = @ + 1,
                        !.sent = Append(@, Outbound(cy.channelId, cy.content))]
        ELSE Settled(cy, cfg, shown, r)

\* await makeAICall(history, message) inside generateReply: the call
\* throws or returns at once, or its request goes out.
makeAICall(cy, cfg, shown, history) ==
    LET r == makeAICallStart(cfg.aiProvider, cfg.apiKey, history, cy.content)
    IN  IF r.kind = "await"
        THEN [cy EXCEPT !.pc = "provider", !.request = r.request,
                        !.calls = @ + 1]
        ELSE Settled(cy, cfg, shown, r)

\* generateReply up to the first await that needs the event loop.
generateReply(cy, cfg, shown, st) ==
    IF IsBlank(cy.content) THEN Catch(Throw(cy, EmptyContentMessage), shown)
    ELSE LET h == getMessageHistory(st[cy.channelId], cfg.historyLength)
         IN  IF ~h.ok THEN Catch(Throw(cy, NoFirstTurnMessage), shown)
             ELSE makeAICall(cy, cfg, shown,
                      Append(Pop(h.turns),
                             [role |-> "user", text |-> CustomInstructions]))

\* handleMessage right after deBounce = true.
EnterTry(cy, cfg, shown, st) ==
    IF cfg.showTyping
    THEN [cy EXCEPT !.pc = "typing", !.typings = @ \cup {cy.channelId}]
    ELSE generateReply(cy, cfg, shown, st)

\* The guard without its deBounce test.
PassesGateIgnoringBusy(cfg, ch, author, active, armed, busy) ==
    ~ ( \/ ~cfg.enabled
        \/ author = NoAuthor
        \/ author = SelfId
        \/ ch # active
        \/ ~armed )

\* The guard without its test for the local user.
PassesGateFromSelf(cfg, ch, author, active, armed, busy) ==
    ~ ( \/ ~cfg.enabled
        \/ author = NoAuthor
        \/ ch # active
        \/ ~armed
        \/ busy )

\* The guard at the top of handleMessage: TRUE when the handler goes on.
PassesGate(cfg, ch, author, active, armed, busy) ==
    ~ ( \/ ~cfg.enabled
        \/ author = NoAuthor
        \/ author = SelfId
        \/ ch # active
        \/ ~armed
        \/ busy )

----------------------------------------------------------------------------
(* State after the module is loaded, with the settings at their defaults *)

DefaultSettings ==
    [enabled       |-> TRUE,
     aiProvider    |-> "gemini",
     apiKey        |-> "",
     historyLength |-> HistoryLengthDefault,
     showTyping    |-> TRUE]

SettingValues ==
    [enabled       |-> BOOLEAN,
     aiProvider    |-> MainProviders,
     apiKey        |-> ApiKeys,
     historyLength |-> {HistoryLengthDefault},
     showTyping    |-> BOOLEAN]

Init ==
    /\ settings = DefaultSettings
    /\ isStarted = FALSE
    /\ deBounce = FALSE
    /\ activeChannelId = Null
    /\ hasShownError = FALSE
    /\ subscribed = FALSE
    /\ leaked = 0
    /\ store = [c \in Channels |-> <<>>]
    /\ cycles = <<>>
    /\ clock = AlertDelay
    /\ probe = NoProbe

StoreSize == Len(store["c1"]) + Len(store["c2"])

RemoveAt(seq, i) == SubSeq(seq, 1, i - 1) \o SubSeq(seq, i + 1, Len(seq))

\* Invocation i goes on to r; the catch block sets hasShownError when it
\* shows the alert.
Advance(i, r) ==
    /\ cycles' = [cycles EXCEPT ![i] = r]
    /\ hasShownError' = (hasShownError \/ r.alerted)
    /\ clock' = IF r.alerted THEN 0 ELSE clock

----------------------------------------------------------------------------
(* The user and the host *)

\* The user edits one setting.
SetSetting(field, value) ==
    /\ settings[field] # value
    /\ settings' = [settings EXCEPT ![field] = value]
    /\ UNCHANGED <<isStarted, deBounce, activeChannelId, hasShownError,
                   subscribed, leaked, store, cycles, clock, probe>>

\* Some MESSAGE_CREATE and CHANNEL_SELECT handler pair is subscribed.
Listening == subscribed \/ leaked > 0

\* start(): without an API key it returns before anything is subscribed.
\* Otherwise a new pair of bound handlers is subscribed and the chat
\* button added, whether or not start() ran before: the pair of an
\* earlier start() that no stop() followed stays subscribed, and
\* this.boundHandleMessage and this.boundHandleChannelSelect no longer
\* refer to it.
Start ==
    /\ IF settings.apiKey = ""
       THEN UNCHANGED <<subscribed, leaked>>
       ELSE /\ subscribed => leaked < MaxLeaked
            /\ subscribed' = TRUE
            /\ leaked' = IF subscribed THEN leaked + 1 ELSE leaked
    /\ UNCHANGED <<settings, isStarted, deBounce, activeChannelId,
                   hasShownError, store, cycles, clock, probe>>

\* stop() that leaves activeChannelId as it is.
StopKeepingFocus ==
    /\ subscribed' = FALSE
    /\ UNCHANGED <<settings, isStarted, deBounce, activeChannelId,
                   hasShownError, leaked, store, cycles, clock, probe>>

\* stop() that also disarms.
StopDisarming ==
    /\ subscribed' = FALSE
    /\ activeChannelId' = Null
    /\ isStarted' = FALSE
    /\ UNCHANGED <<settings, deBounce, hasShownError, leaked, store, cycles,
                   clock, probe>>

\* stop(): the handlers of the latest start() are unsubscribed, the chat
\* button is removed and activeChannelId is cleared.
Stop ==
    /\ subscribed' = FALSE
    /\ activeChannelId' = Null
    /\ UNCHANGED <<settings, isStarted, deBounce, hasShownError, leaked,
                   store, cycles, clock, probe>>

\* AutoReplyToggle's onClick; the button exists while the plugin is started.
Toggle ==
    /\ subscribed
    /\ isStarted' = ~isStarted
    /\ UNCHANGED <<settings, deBounce, activeChannelId, hasShownError,
                   subscribed, leaked, store, cycles, clock, probe>>

\* A CHANNEL_SELECT event is dispatched: handleChannelSelect(event) runs
\* once for every subscribed handler, each time with the same assignment.
handleChannelSelect(ch) ==
    /\ Listening
    /\ activeChannelId' = ch
    /\ UNCHANGED <<settings, isStarted, deBounce, hasShownError,
                   subscribed, leaked, store, cycles, clock, probe>>

\* handleMessage that sets deBounce only after its first await (here: never
\* before the next event can be handled).
handleMessageLateBusy(ch, author, content) ==
    IF PassesGate(settings, ch, author, activeChannelId, isStarted, deBounce)
    THEN /\ deBounce' = ~settings.showTyping
         /\ LET r == EnterTry([NewCycle(ch, content) EXCEPT
                                  !.trigger = Len(store'[ch])],
                              settings, hasShownError, store')
            IN  /\ cycles' = Append(cycles, r)
                /\ hasShownError' = (hasShownError \/ r.alerted)
                /\ clock' = IF r.alerted THEN 0 ELSE clock
    ELSE UNCHANGED <<deBounce, cycles, hasShownError, clock>>

\* handleMessage(message) up to its first await, or its early return.
handleMessage(ch, author, content) ==
    IF PassesGate(settings, ch, author, activeChannelId, isStarted, deBounce)
    THEN /\ deBounce' = TRUE
         /\ LET r == EnterTry([NewCycle(ch, content) EXCEPT
                                  !.trigger = Len(store'[ch])],
                              settings, hasShownError, store')
            IN  /\ cycles' = Append(cycles, r)
                /\ hasShownError' = (hasShownError \/ r.alerted)
                /\ clock' = IF r.alerted THEN 0 ELSE clock
    ELSE UNCHANGED <<deBounce, cycles, hasShownError, clock>>

\* A MESSAGE_CREATE event is dispatched: the MessageStore takes the message
\* (an event without an author id carries none), then handleMessage runs
\* once for every subscribed handler.  The first run that passes the gate
\* sets deBounce before it returns to the dispatcher, so every later run
\* for the same event returns at the gate.
MessageCreate(ch, author, content) ==
    /\ IF author = NoAuthor
       THEN store' = store
       ELSE /\ StoreSize < MaxStore
            /\ store' = [store EXCEPT ![ch] =
                            Append(@, [author |-> author, content |-> content])]
    /\ IF Listening
       THEN handleMessage(ch, author, content)
       ELSE UNCHANGED <<deBounce, cycles, hasShownError, clock>>
    /\ UNCHANGED <<settings, isStarted, activeChannelId, subscribed, leaked, probe>>

----------------------------------------------------------------------------
(* The awaits of handleMessage *)

\* The typing request settles (setTypingStatus swallows a rejection).
TypingDone(i) ==
    /\ i \in 1..Len(cycles)
    /\ cycles[i].pc \in {"typing", "partTyping", "sendTyping"}
    /\ LET cy == cycles[i]
       IN  Advance(i, CASE cy.pc = "typing" ->
                               generateReply(cy, settings, hasShownError, store)
                        [] cy.pc = "partTyping" -> [cy EXCEPT !.pc = "partDelay"]
                        [] cy.pc = "sendTyping" -> [cy EXCEPT !.pc = "sendDelay"])
    /\ UNCHANGED <<settings, isStarted, deBounce, activeChannelId,
                   subscribed, leaked, store, probe>>

\* The pending await of makeAICall in invocation cy settles with resp:
\* the SDK or fetch call, or response.json().
SettleAwait(cy, resp) ==
    IF cy.pc = "body"
    THEN makeAICallBody(cy.request.provider, resp)
    ELSE makeAICallSettle(cy.request.provider, resp)

\* fetch resolves with an ok response (deepseek, openai): makeAICall goes
\* on to `await response.json()`.
ProviderResponds(i) ==
    /\ i \in 1..Len(cycles)
    /\ cycles[i].pc = "provider"
    /\ cycles[i].request.provider # "gemini"
    /\ LET cy == cycles[i]
       IN  Advance(i, Settled(cy, settings, hasShownError,
                              SettleAwait(cy, OkResponse)))
    /\ UNCHANGED <<settings, isStarted, deBounce, activeChannelId,
                   subscribed, leaked, store, probe>>

\* The provider answers with text: the SDK call resolves (gemini), or
\* response.json() does (deepseek, openai).
ProviderReply(i, reply) ==
    /\ i \in 1..Len(cycles)
    /\ \/ cycles[i].pc = "provider" /\ cycles[i].request.provider = "gemini"
       \/ cycles[i].pc = "body"
    /\ LET cy == cycles[i]
       IN  Advance(i, Settled(cy, settings, hasShownError,
                              SettleAwait(cy, ReplyResponse(cy.request.provider,
                                                            reply))))
    /\ UNCHANGED <<settings, isStarted, deBounce, activeChannelId,
                   subscribed, leaked, store, probe>>

\* The provider call fails: a non-ok response ("http"), a blocked or
\* failed request ("network", whose text has one of the CSP keywords) or
\* anything else; response.json() can fail in the last two ways.
\* makeAICall's catch shows the CSP dialog and rethrows.
ProviderFail(i, kind) ==
    /\ i \in 1..Len(cycles)
    /\ \/ cycles[i].pc = "provider"
       \/ cycles[i].pc = "body" /\ kind # "http"
    /\ LET cy == cycles[i]
       IN  Advance(i, Settled(cy, settings, hasShownError,
                              SettleAwait(cy, FailResponse(cy.request.provider,
                                                           kind))))
    /\ UNCHANGED <<settings, isStarted, deBounce, activeChannelId,
                   subscribed, leaked, store, probe>>

\* DelayFire that resets deBounce right after the send.
DelayFireReleasing(i) ==
    /\ i \in 1..Len(cycles)
    /\ cycles[i].pc \in {"partDelay", "sendDelay"}
    /\ LET cy == cycles[i]
       IN  Advance(i,
             IF cy.pc = "partDelay"
             THEN SplitLoop([cy EXCEPT
                                !.sent = Append(@, Outbound(cy.channelId, Head(cy.parts))),
                                !.parts = Tail(@)], settings)
             ELSE Finally([cy EXCEPT
                                !.sent = Append(@, Outbound(cy.channelId, cy.reply))]))
    /\ deBounce' = FALSE
    /\ UNCHANGED <<settings, isStarted, activeChannelId, subscribed, leaked, store,
                   probe>>

\* DelayFire that looks at isStarted again and sends only while armed.
DelayFireIfArmed(i) ==
    /\ i \in 1..Len(cycles)
    /\ cycles[i].pc \in {"partDelay", "sendDelay"}
    /\ LET cy == cycles[i]
           out == IF isStarted THEN <<Outbound(cy.channelId,
                                       IF cy.pc = "partDelay" THEN Head(cy.parts)
                                                              ELSE cy.reply)>>
                               ELSE <<>>
       IN  Advance(i,
             IF cy.pc = "partDelay"
             THEN SplitLoop([cy EXCEPT !.sent = @ \o out, !.parts = Tail(@)],
                            settings)
             ELSE Finally([cy EXCEPT !.sent = @ \o out]))
    /\ UNCHANGED <<settings, isStarted, deBounce, activeChannelId,
                   subscribed, leaked, store, probe>>

\* DelayFire that sends reply.trim() on the single-message path.
DelayFireTrimmed(i) ==
    /\ i \in 1..Len(cycles)
    /\ cycles[i].pc \in {"partDelay", "sendDelay"}
    /\ LET cy == cycles[i]
       IN  Advance(i,
             IF cy.pc = "partDelay"
             THEN SplitLoop([cy EXCEPT
                                !.sent = Append(@, Outbound(cy.channelId, Head(cy.parts))),
                                !.parts = Tail(@)], settings)
             ELSE Finally([cy EXCEPT
                                !.sent = Append(@, Outbound(cy.channelId, Trim(cy.reply)))]))
    /\ UNCHANGED <<settings, isStarted, deBounce, activeChannelId,
                   subscribed, leaked, store, probe>>

\* The pacing timer fires: the message is sent and the handler goes on.
DelayFire(i) ==
    /\ i \in 1..Len(cycles)
    /\ cycles[i].pc \in {"partDelay", "sendDelay"}
    /\ LET cy == cycles[i]
       IN  Advance(i,
             IF cy.pc = "partDelay"
             THEN SplitLoop([cy EXCEPT
                                !.sent = Append(@, Outbound(cy.channelId, Head(cy.parts))),
                                !.parts = Tail(@)], settings)
             ELSE Finally([cy EXCEPT
                                !.sent = Append(@, Outbound(cy.channelId, cy.reply))]))
    /\ UNCHANGED <<settings, isStarted, deBounce, activeChannelId,
                   subscribed, leaked, store, probe>>

\* The cooldown timer fires: deBounce = false, the invocation is over.
CooldownFire(i) ==
    /\ i \in 1..Len(cycles)
    /\ cycles[i].pc = "cooldown"
    /\ deBounce' = FALSE
    /\ cycles' = RemoveAt(cycles, i)
    /\ UNCHANGED <<settings, isStarted, activeChannelId, hasShownError,
                   subscribed, leaked, store, clock, probe>>

\* Time passes: d seconds more since the last alert.
Tick(d) ==
    /\ clock < AlertDelay
    /\ clock' = Min(clock + d, AlertDelay)
    /\ UNCHANGED <<settings, isStarted, deBounce, activeChannelId,
                   hasShownError, subscribed, leaked, store, cycles, probe>>

\* The timer of the error alert fires, AlertDelay seconds after the alert
\* at the earliest.
AlertTimerFire ==
    /\ hasShownError
    /\ clock >= AlertDelay
    /\ hasShownError' = FALSE
    /\ UNCHANGED <<settings, isStarted, deBounce, activeChannelId,
                   subscribed, leaked, store, cycles, clock, probe>>

----------------------------------------------------------------------------

Next ==
    \/ \E f \in DOMAIN SettingValues : \E v \in SettingValues[f] : SetSetting(f, v)
    \/ Start
    \/ Stop
    \/ Toggle
    \/ \E ch \in Channels \cup {Null} : handleChannelSelect(ch)
    \/ \E ch \in Channels, a \in EventAuthors, c \in MsgContents :
           MessageCreate(ch, a, c)
    \/ \E i \in DOMAIN cycles : TypingDone(i)
    \/ \E i \in DOMAIN cycles : ProviderResponds(i)
    \/ \E i \in DOMAIN cycles, r \in Replies : ProviderReply(i, r)
    \/ \E i \in DOMAIN cycles, k \in ProviderErrors : ProviderFail(i, k)
    \/ \E i \in DOMAIN cycles : DelayFire(i)
    \/ \E i \in DOMAIN cycles : CooldownFire(i)
    \/ AlertTimerFire
    \/ Tick(AlertDelay)

Spec == Init /\ [][Next]_vars

ProviderSettles ==
    \/ \E i \in DOMAIN cycles : ProviderResponds(i)
    \/ \E i \in DOMAIN cycles, r \in Replies : ProviderReply(i, r)
    \/ \E i \in DOMAIN cycles, k \in ProviderErrors : ProviderFail(i, k)

\* The plugin after one start() with an API key, until stop(): the user
\* edits settings, presses the toggle and changes channel, messages arrive
\* and cycles run.  Timers fire and every outstanding host or provider
\* call settles.
FairInit ==
    /\ settings = [DefaultSettings EXCEPT !.apiKey = "key"]
    /\ Init!2 /\ Init!3 /\ Init!4 /\ Init!5
    /\ subscribed = TRUE
    /\ Init!7 /\ Init!8 /\ Init!9 /\ Init!10 /\ Init!11

FairNext ==
    \/ \E f \in DOMAIN SettingValues : \E v \in SettingValues[f] : SetSetting(f, v)
    \/ Toggle
    \/ \E ch \in Channels \cup {Null} : handleChannelSelect(ch)
    \/ \E ch \in Channels, a \in EventAuthors, c \in MsgContents :
           MessageCreate(ch, a, c)
    \/ \E i \in DOMAIN cycles : TypingDone(i)
    \/ \E i \in DOMAIN cycles : ProviderResponds(i)
    \/ \E i \in DOMAIN cycles, r \in Replies : ProviderReply(i, r)
    \/ \E i \in DOMAIN cycles, k \in ProviderErrors : ProviderFail(i, k)
    \/ \E i \in DOMAIN cycles : DelayFire(i)
    \/ \E i \in DOMAIN cycles : CooldownFire(i)
    \/ AlertTimerFire
    \/ Tick(AlertDelay)

FairSpec ==
    /\ FairInit
    /\ [][FairNext]_vars
    /\ WF_vars(\E i \in DOMAIN cycles : TypingDone(i))
    /\ WF_vars(ProviderSettles)
    /\ WF_vars(\E i \in DOMAIN cycles : DelayFire(i))
    /\ WF_vars(\E i \in DOMAIN cycles : CooldownFire(i))


----------------------------------------------------------------------------
(* The pacer on its own: the handler right after generateReply returned,  *)
(* for every reply up to MaxReplyLen characters, with the typing          *)
(* indicator on or off.                                                    *)

PacerTrigger == [author |-> "other", content |-> <<"a">>]

PacerInit ==
    \E reply \in StringsUpTo(MaxReplyLen), typing \in BOOLEAN :
        /\ settings = [DefaultSettings EXCEPT !.apiKey = "key",
                                              !.showTyping = typing]
        /\ isStarted = TRUE
        /\ deBounce = TRUE
        /\ activeChannelId = "c1"
        /\ hasShownError = FALSE
        /\ subscribed = TRUE
        /\ leaked = 0
        /\ store = [c \in Channels |-> IF c = "c1" THEN <<PacerTrigger>> ELSE <<>>]
        /\ cycles = <<OnReply([NewCycle("c1", PacerTrigger.content) EXCEPT
                                  !.pc = "provider", !.calls = 1,
                                  !.trigger = 1,
                                  !.typings = IF typing THEN {"c1"} ELSE {}],
                              settings, reply)>>
        /\ clock = AlertDelay
        /\ probe = NoProbe

PacerNext ==
    \/ \E v \in BOOLEAN : SetSetting("showTyping", v)
    \/ \E i \in DOMAIN cycles : TypingDone(i)
    \/ \E i \in DOMAIN cycles : DelayFire(i)
    \/ \E i \in DOMAIN cycles : CooldownFire(i)

PacerSpec == PacerInit /\ [][PacerNext]_vars

----------------------------------------------------------------------------
(* The provider adapter on its own: one call of makeAICall (the plugin) or *)
(* makeAIRequest (the native helper) for every provider identifier, API    *)
(* key and history of up to MaxTurns turns, and every way the SDK or fetch *)
(* call can settle.                                                        *)

AdapterFns == {"makeAICall", "makeAIRequest"}

HistoriesUpTo(n) ==
    UNION {[1..k -> {[role |-> r, text |-> <<"a">>] : r \in {"user", "model"}}]
               : k \in 0..n}

NoResponse ==
    [kind |-> "none", ok |-> FALSE, statusText |-> "", choices |-> <<>>,
     thrown |-> Err("", NoError)]

AdapterInit ==
    /\ Init!1 /\ Init!2 /\ Init!3 /\ Init!4 /\ Init!5 /\ Init!6 /\ Init!7
    /\ Init!8 /\ Init!9 /\ Init!10
    /\ \E fn \in AdapterFns, provider \in Providers, apiKey \in ApiKeys,
          history \in HistoriesUpTo(MaxTurns) :
           probe = [fn       |-> fn,
                    provider |-> provider,
                    apiKey   |-> apiKey,
                    history  |-> history,
                    message  |-> <<"a">>,
                    pc       |-> "call",
                    calls    |-> 0,         \* SDK or fetch calls made
                    request  |-> NoRequest,
                    response |-> NoResponse,  \* what the SDK or fetch call gave
                    body     |-> NoResponse,  \* what response.json() gave
                    result   |-> Result("none", FALSE, <<>>, NoError)]

\* The function is called and runs up to its first await.
AdapterCall ==
    /\ probe.fn \in AdapterFns
    /\ probe.pc = "call"
    /\ LET r == IF probe.fn = "makeAICall"
                THEN makeAICallStart(probe.provider, probe.apiKey,
                                     probe.history, probe.message)
                ELSE makeAIRequestStart(probe.provider, probe.apiKey,
                                        probe.history, probe.message)
       IN  probe' = [probe EXCEPT
                        !.pc = IF r.kind = "await" THEN "await" ELSE "done",
                        !.calls = IF r.kind = "await" THEN @ + 1 ELSE @,
                        !.request = r.request,
                        !.result = r]
    /\ UNCHANGED <<settings, isStarted, deBounce, activeChannelId,
                   hasShownError, subscribed, leaked, store, cycles, clock>>

\* The SDK or fetch call settles with resp and the function runs to its
\* end, or to `await response.json()`.
AdapterSettle(resp) ==
    /\ probe.fn \in AdapterFns
    /\ probe.pc = "await"
    /\ LET r == IF probe.fn = "makeAICall"
                THEN makeAICallSettle(probe.provider, resp)
                ELSE makeAIRequestSettle(probe.provider, resp)
       IN  probe' = [probe EXCEPT
                        !.pc = IF r.kind = "json" THEN "body" ELSE "done",
                        !.response = resp,
                        !.result = r]
    /\ UNCHANGED <<settings, isStarted, deBounce, activeChannelId,
                   hasShownError, subscribed, leaked, store, cycles, clock>>

\* response.json() settles with body and the function runs to its end.
AdapterBody(body) ==
    /\ probe.fn \in AdapterFns
    /\ probe.pc = "body"
    /\ probe' = [probe EXCEPT
                    !.pc = "done",
                    !.body = body,
                    !.result = IF probe.fn = "makeAICall"
                               THEN makeAICallBody(probe.provider, body)
                               ELSE makeAIRequestBody(probe.provider, body)]
    /\ UNCHANGED <<settings, isStarted, deBounce, activeChannelId,
                   hasShownError, subscribed, leaked, store, cycles, clock>>

AdapterNext ==
    \/ AdapterCall
    \/ \E resp \in ResponsesOf(probe.provider) : AdapterSettle(resp)
    \/ \E body \in BodiesOf(probe.response) : AdapterBody(body)

AdapterSpec == AdapterInit /\ [][AdapterNext]_vars

----------------------------------------------------------------------------
(* The error alert against the clock: the plugin started, armed and        *)
(* focused on c1, with or without an API key; messages arrive, cycles run  *)
(* and fail, and time passes TickSeconds at a time.                        *)

AlertInit ==
    \E key \in ApiKeys, typing \in BOOLEAN :
        /\ settings = [DefaultSettings EXCEPT !.apiKey = key,
                                              !.showTyping = typing]
        /\ isStarted = TRUE
        /\ deBounce = FALSE
        /\ activeChannelId = "c1"
        /\ hasShownError = FALSE
        /\ subscribed = TRUE
        /\ leaked = 0
        /\ store = [c \in Channels |-> <<>>]
        /\ cycles = <<>>
        /\ clock = AlertDelay
        /\ probe = NoProbe

AlertNext ==
    \/ \E c \in MsgContents : MessageCreate("c1", "other", c)
    \/ \E i \in DOMAIN cycles : TypingDone(i)
    \/ \E i \in DOMAIN cycles, r \in Replies : ProviderReply(i, r)
    \/ \E i \in DOMAIN cycles, k \in ProviderErrors : ProviderFail(i, k)
    \/ \E i \in DOMAIN cycles : DelayFire(i)
    \/ \E i \in DOMAIN cycles : CooldownFire(i)
    \/ AlertTimerFire
    \/ Tick(TickSeconds)

AlertSpec == AlertInit /\ [][AlertNext]_vars

----------------------------------------------------------------------------
(* The history assembler on its own: one call of getMessageHistory for     *)
(* every channel of up to MaxMsgs messages (by the local user or another,  *)
(* with text, whitespace or nothing as content) and every historyLength    *)
(* from 0 to MaxWindow.                                                    *)

HistAuthors == {SelfId, "other"}
HistContents == {<<"a">>, <<" ">>, <<>>}

ChannelsUpTo(n) ==
    UNION {[1..k -> [author : HistAuthors, content : HistContents]] : k \in 0..n}

HistInit ==
    /\ Init!1 /\ Init!2 /\ Init!3 /\ Init!4 /\ Init!5 /\ Init!6 /\ Init!7
    /\ Init!8 /\ Init!9 /\ Init!10
    /\ \E msgs \in ChannelsUpTo(MaxMsgs), n \in 0..MaxWindow :
           probe = [fn     |-> "getMessageHistory",
                    msgs   |-> msgs,       \* MessageStore.getMessages(channelId).toArray()
                    n      |-> n,          \* settings.store.historyLength
                    pc     |-> "call",
                    result |-> [ok |-> FALSE, turns |-> <<>>]]

\* getMessageHistory runs; it has no await that needs the event loop.
HistCall ==
    /\ probe.fn = "getMessageHistory"
    /\ probe.pc = "call"
    /\ probe' = [probe EXCEPT !.pc = "done",
                              !.result = getMessageHistory(probe.msgs, probe.n)]
    /\ UNCHANGED <<settings, isStarted, deBounce, activeChannelId,
                   hasShownError, subscribed, leaked, store, cycles, clock>>

HistNext == HistCall

HistSpec == HistInit /\ [][HistNext]_vars

----------------------------------------------------------------------------
(* Properties *)

Last(seq) == seq[Len(seq)]

IsPrefix(a, b) == Len(a) <= Len(b) /\ a = SubSeq(b, 1, Len(a))

NonBlank(s) == Trim(s) # <<>>

\* The messages a reply stands for: its non-blank paragraphs when it has a
\* blank-line separator, else the reply itself.
Paragraphs(reply) == SelectSeq(Split(reply), NonBlank)

ToChannel(ch, texts) == [k \in 1..Len(texts) |-> Outbound(ch, texts[k])]

\* C1: at most one handleMessage invocation is between deBounce = true and
\* deBounce = false, and deBounce is true exactly while there is one.
C1_OneCycleInFlight ==
    /\ Len(cycles) <= 1
    /\ deBounce <=> (Len(cycles) = 1)

\* C1 witness: a cycle is waiting for the provider while a second message
\* from another user sits in the armed, focused channel.
C1_Witness ==
    /\ Len(cycles) = 1
    /\ cycles[1].pc = "provider"
    /\ subscribed /\ isStarted /\ settings.enabled
    /\ activeChannelId = cycles[1].channelId
    /\ Len(store[cycles[1].channelId]) = 2
    /\ \A k \in 1..2 : /\ store[cycles[1].channelId][k].author = "other"
                       /\ store[cycles[1].channelId][k].content = <<"a">>

\* C2: a message delivered while deBounce is true changes nothing of the
\* plugin (no flag, no setting, no invocation's typing, request, send or
\* alert), and an invocation only ever starts in the step that delivers
\* its message: nothing is queued.
C2_BusyMessageDropped ==
    [][ /\ (deBounce /\ store' # store) =>
               UNCHANGED <<settings, isStarted, deBounce, activeChannelId,
                           hasShownError, subscribed, leaked, cycles>>
        /\ (Len(cycles') > Len(cycles)) =>
               /\ ~deBounce
               /\ store' # store
               /\ LET cy == Last(cycles')
                  IN  /\ store'[cy.channelId] # store[cy.channelId]
                      /\ Last(store'[cy.channelId]).content = cy.content
      ]_vars

\* C2 witness: the cycle started by a text message is in flight and a later
\* whitespace-only message from another user is the channel's last.
C2_Witness ==
    /\ deBounce
    /\ Len(cycles) = 1
    /\ cycles[1].content = <<"a">>
    /\ subscribed /\ isStarted /\ settings.enabled
    /\ activeChannelId = cycles[1].channelId
    /\ Len(store[cycles[1].channelId]) = 2
    /\ Last(store[cycles[1].channelId]) = [author |-> "other", content |-> <<" ">>]

\* C3: whenever deBounce is true it is eventually false again.
C3_BusyReleased == deBounce ~> ~deBounce

\* C3 witness: a failing cycle has shown its alert and is over, the gate is
\* open again.
C3_Witness ==
    /\ hasShownError
    /\ ~deBounce
    /\ cycles = <<>>

\* C4: deBounce goes from true to false only when the cooldown timer of the
\* invocation in flight fires; the timer is started only when the
\* invocation has failed or has nothing left to send; and while it runs the
\* invocation does nothing more and no other invocation starts.
C4_ReleaseOnlyByCooldown ==
    [][ /\ (deBounce /\ ~deBounce') =>
               \E i \in DOMAIN cycles : /\ cycles[i].pc = "cooldown"
                                        /\ cycles' = RemoveAt(cycles, i)
        /\ \A i \in DOMAIN cycles :
               cycles[i].pc = "cooldown" =>
                   \/ cycles' = cycles /\ deBounce'
                   \/ cycles' = RemoveAt(cycles, i) /\ ~deBounce'
        /\ \A i \in DOMAIN cycles \cap DOMAIN cycles' :
               (cycles[i].pc # "cooldown" /\ cycles'[i].pc = "cooldown") =>
                   \/ cycles'[i].outcome = "error"
                   \/ /\ cycles'[i].outcome = "reply"
                      /\ \A k \in DOMAIN cycles'[i].parts :
                             ~NonBlank(cycles'[i].parts[k])
                      /\ (cycles[i].pc \in {"partDelay", "sendDelay"} =>
                             Len(cycles'[i].sent) = Len(cycles[i].sent) + 1)
      ]_vars

\* C4 witness: the cooldown timer runs after the second of two sends.
C4_Witness ==
    /\ deBounce
    /\ Len(cycles) = 1
    /\ cycles[1].pc = "cooldown"
    /\ Len(cycles[1].sent) = 2

\* C5: deBounce goes from false to true only in the step that handles a
\* message event while a handler is subscribed, the plugin is enabled
\* and armed, the event's channel is the focused one, and the message has
\* an author who is not the local user.
C5_GateEntry ==
    [][ (~deBounce /\ deBounce') =>
            /\ Listening /\ settings.enabled /\ isStarted
            /\ Len(cycles') = Len(cycles) + 1
            /\ LET cy == Last(cycles')
               IN  /\ cy.channelId = activeChannelId
                   /\ store'[cy.channelId] =
                          Append(store[cy.channelId], Last(store'[cy.channelId]))
                   /\ Last(store'[cy.channelId]).author \notin {SelfId, NoAuthor}
                   /\ Last(store'[cy.channelId]).content = cy.content
      ]_vars

\* C5 witness: the gate was just passed by the only message there is, and
\* the handler waits for its first typing request.
C5_Witness ==
    /\ deBounce
    /\ Len(cycles) = 1
    /\ cycles[1].pc = "typing"
    /\ StoreSize = 1
    /\ store[cycles[1].channelId] =
           <<[author |-> "other", content |-> cycles[1].content]>>

\* C6 as claimed: deBounce never goes from false to true for a message
\* whose content is empty or whitespace-only.
C6_BlankNeverStartsCycle ==
    [][ (~deBounce /\ deBounce') => ~IsBlank(Last(cycles').content) ]_vars

\* The messages an invocation has sent once its try block is over.
SentWhenDone(cy) ==
    ToChannel(cy.channelId,
              IF HasSeparator(cy.reply) THEN Paragraphs(cy.reply)
                                        ELSE <<cy.reply>>)

\* C7: with isStarted false, an invocation that passed the gate still goes
\* on (its pending await is served, its provider request is out) and, once
\* its reply is handled, it has sent every message of the reply.
C7_DisarmIsAdvisory ==
    ~isStarted =>
        \A i \in DOMAIN cycles :
            LET cy == cycles[i]
            IN  /\ cy.pc \in {"typing", "partTyping", "sendTyping"} =>
                       ENABLED TypingDone(i)
                /\ cy.pc \in {"provider", "body"} =>
                       cy.calls = 1 /\ ENABLED ProviderSettles
                /\ cy.pc \in {"partDelay", "sendDelay"} => ENABLED DelayFire(i)
                /\ cy.outcome = "reply" => IsPrefix(cy.sent, SentWhenDone(cy))
                /\ (cy.pc = "cooldown" /\ cy.outcome = "reply") =>
                       cy.sent = SentWhenDone(cy)

\* C7 witness: disarmed, and the invocation has made its provider call and
\* sent both paragraphs of the reply.
C7_Witness ==
    /\ ~isStarted
    /\ Len(cycles) = 1
    /\ cycles[1].pc = "cooldown"
    /\ cycles[1].calls = 1
    /\ Len(cycles[1].sent) = 2

\* C8: isStarted is false initially and changes only in a step that flips
\* it and changes nothing else (the toggle press); start, stop,
\* handleChannelSelect and handleMessage leave it as it is.
C8_ArmedOnlyByToggle ==
    /\ ~isStarted
    /\ [][ (isStarted' # isStarted) =>
               UNCHANGED <<settings, deBounce, activeChannelId,
                           hasShownError, subscribed, leaked, store, cycles>>
         ]_vars

\* C8 witness: still armed after stop(), with a failed cycle behind.
C8_Witness ==
    /\ isStarted
    /\ ~subscribed
    /\ hasShownError
    /\ activeChannelId = Null

\* C9: for a reply with a blank-line separator the messages sent are the
\* non-blank segments between separators, in their order in the reply, one
\* message each; by the time the cooldown starts all of them are sent.
\* For "a", blank line, "b" they are "a", then "b".
C9_SplitReplySends ==
    \A i \in DOMAIN cycles :
        LET cy == cycles[i]
            expected == ToChannel(cy.channelId, Paragraphs(cy.reply))
        IN  (cy.outcome = "reply" /\ HasSeparator(cy.reply)) =>
                /\ IsPrefix(cy.sent, expected)
                /\ cy.pc = "cooldown" => cy.sent = expected
                /\ cy.reply = <<"a", "\n", "\n", "b">> =>
                       expected = <<Outbound(cy.channelId, <<"a">>),
                                    Outbound(cy.channelId, <<"b">>)>>

\* C9 witness: the two different paragraphs of a reply with one blank line
\* between them are both sent, the first one first, and the cooldown has
\* started.
C9_Witness ==
    /\ Len(cycles) = 1
    /\ cycles[1].pc = "cooldown"
    /\ cycles[1].reply = <<"a", "\n", "\n", "b">>
    /\ cycles[1].sent = <<Outbound("c1", <<"a">>), Outbound("c1", <<"b">>)>>

\* C10: for a reply without a blank-line separator exactly one message is
\* sent, and it is the reply unchanged.
C10_SingleReplySend ==
    \A i \in DOMAIN cycles :
        LET cy == cycles[i]
        IN  (cy.outcome = "reply" /\ ~HasSeparator(cy.reply)) =>
                /\ cy.pc # "cooldown" => cy.sent = <<>>
                /\ cy.pc = "cooldown" =>
                       cy.sent = <<Outbound(cy.channelId, cy.reply)>>

\* C10 witness: a reply with a single line feed and outer whitespace went
\* out as one message.
C10_Witness ==
    /\ Len(cycles) = 1
    /\ cycles[1].pc = "cooldown"
    /\ cycles[1].reply = <<" ", "a", "\n", "a">>
    /\ cycles[1].sent = <<Outbound("c1", <<" ", "a", "\n", "a">>)>>

\* C11: a makeAICall with an empty API key, whatever the provider
\* identifier, is over at once with the error "API key is required" and
\* has made no SDK or fetch call and built no request.
C11_MissingKeyFailsFirst ==
    (probe.fn = "makeAICall" /\ probe.apiKey = "" /\ probe.pc # "call") =>
        /\ probe.pc = "done"
        /\ probe.result.kind = "throw"
        /\ probe.result.error = MissingKeyMessage
        /\ probe.calls = 0
        /\ probe.request = NoRequest

\* C11 witness: the call with an empty key and a known provider has thrown.
C11_Witness ==
    /\ probe.fn = "makeAICall"
    /\ probe.apiKey = ""
    /\ probe.provider = "openai"
    /\ probe.pc = "done"
    /\ probe.result.kind = "throw"

\* C12 as claimed: a makeAICall with an API key and a provider identifier
\* that is none of gemini, deepseek, openai ends in an error, not in a
\* text result, and without an SDK or fetch call.
C12_UnknownProviderIsError ==
    (/\ probe.fn = "makeAICall"
     /\ probe.apiKey # ""
     /\ probe.provider \notin KnownProviders
     /\ probe.pc # "call") =>
        /\ probe.pc = "done"
        /\ probe.result.kind = "throw"
        /\ probe.calls = 0

\* The call of getMessageHistory under study is over.
HistDone == probe.fn = "getMessageHistory" /\ probe.pc = "done"

\* The role-tagged, non-empty turns of the window the code took.
HistKept == SelectSeq(MapTurns(SliceLast(probe.msgs, probe.n)), NonEmptyTurn)

\* C13: when turns are left after the empty ones are dropped,
\* getMessageHistory returns them with the first turn's role user; the
\* text of every turn and the role of every turn but the first are as they
\* were mapped.
C13_FirstTurnIsUser ==
    (HistDone /\ HistKept # <<>>) =>
        /\ probe.result.ok
        /\ Len(probe.result.turns) = Len(HistKept)
        /\ probe.result.turns[1].role = "user"
        /\ \A k \in DOMAIN HistKept :
               /\ probe.result.turns[k].text = HistKept[k].text
               /\ k > 1 => probe.result.turns[k].role = HistKept[k].role

\* C13 witness: the window starts with a message of the local user and
\* has another one later; the first came back as user, the later one as
\* model.
C13_Witness ==
    /\ HistDone
    /\ Len(HistKept) = 3
    /\ HistKept[1].role = "model"
    /\ HistKept[3].role = "model"
    /\ probe.result.ok
    /\ probe.result.turns[1].role = "user"
    /\ probe.result.turns[3].role = "model"

\* The texts of a sequence of turns or messages.
TurnTexts(turns) == [k \in DOMAIN turns |-> turns[k].text]
NonBlankContents(msgs) ==
    SelectSeq([k \in DOMAIN msgs |-> msgs[k].content], NonBlank)

\* C14 as claimed: for every window getMessageHistory returns, in order,
\* the turns whose text is not empty after trimming, and only those.
C14_DropsExactlyEmptyTurns ==
    HistDone =>
        /\ probe.result.ok
        /\ TurnTexts(probe.result.turns) =
               NonBlankContents(SliceLast(probe.msgs, probe.n))

\* C15 as claimed: with no message in the channel, or only messages
\* whose text is empty after trimming in the window, getMessageHistory
\* returns the empty sequence and throws nothing.
C15_EmptyWindowIsEmptyResult ==
    (HistDone /\ HistKept = <<>>) =>
        /\ probe.result.ok
        /\ probe.result.turns = <<>>

\* C16 as claimed: the turns come from the last min(N, L) messages, so
\* there are never more than N of them.
C16_AtMostNTurns ==
    (HistDone /\ probe.result.ok) =>
        /\ Len(probe.result.turns) <= probe.n
        /\ LET L == Len(probe.msgs)
               k == Min(probe.n, L)
           IN  TurnTexts(probe.result.turns) =
                   NonBlankContents(SubSeq(probe.msgs, L - k + 1, L))

\* An invocation shows the "AutoReply Error" alert in this step.
AlertShown ==
    /\ Len(cycles') >= Len(cycles)
    /\ \E i \in DOMAIN cycles' :
           /\ cycles'[i].alerted
           /\ i \in DOMAIN cycles => ~cycles[i].alerted

\* C17: an "AutoReply Error" alert is shown only when at least AlertDelay
\* (60) seconds have passed since the alert before it (clock counts the
\* seconds since the last alert and starts at AlertDelay).
C17_AlertsSixtySecondsApart ==
    [][ AlertShown => (clock >= AlertDelay /\ clock' = 0) ]_vars

\* C17 witness: a cycle failed 40 seconds after the last alert and showed
\* none.
C17_Witness ==
    /\ hasShownError
    /\ clock = 2 * TickSeconds
    /\ clock < AlertDelay
    /\ Len(cycles) = 1
    /\ cycles[1].outcome = "error"
    /\ ~cycles[1].alerted

\* The call under study went to deepseek or openai and its fetch gave an
\* HTTP response.
GotHttpResponse ==
    /\ probe.fn \in AdapterFns
    /\ probe.provider \in {"deepseek", "openai"}
    /\ probe.pc = "done"
    /\ probe.response.kind = "http"

\* C18: for deepseek and openai, in makeAICall and in makeAIRequest, a
\* response that is not ok gives an error whose message is "API request
\* failed: " followed by the response's status text, and no text; an ok
\* response (with a choice in its body) gives the first choice's message
\* content as the text.
C18_HttpResponseMapping ==
    GotHttpResponse =>
        /\ ~probe.response.ok =>
               /\ ~probe.result.success
               /\ probe.result.kind = IF probe.fn = "makeAICall" THEN "throw"
                                                                 ELSE "return"
               /\ probe.result.error = <<"API request failed: ",
                                         probe.response.statusText>>
               /\ probe.result.text = <<>>
        /\ (probe.response.ok /\ probe.body.kind = "json"
               /\ probe.body.choices # <<>>) =>
               /\ probe.result.success
               /\ probe.result.kind = "return"
               /\ probe.result.text = Head(probe.body.choices)
               /\ probe.result.error = NoError

\* C18 witness: openai answered 403 Forbidden with a body that has
\* choices; makeAICall threw and gave no text.
C18_Witness ==
    /\ GotHttpResponse
    /\ probe.fn = "makeAICall"
    /\ probe.provider = "openai"
    /\ ~probe.response.ok
    /\ probe.response.statusText = "Forbidden"
    /\ Len(probe.response.choices) = 2
    /\ probe.result.kind = "throw"
    /\ probe.body = NoResponse

\* C19 as claimed: the request to deepseek or openai has one turn per
\* history turn, in order, then one user turn with the new message, and
\* every role is user or assistant.
C19_WireRoles ==
    (/\ probe.fn \in AdapterFns
     /\ probe.provider \in {"deepseek", "openai"}
     /\ probe.request # NoRequest) =>
        LET turns == probe.request.turns
            n     == Len(probe.history)
        IN  /\ Len(turns) = n + 1
            /\ \A k \in 1..n : turns[k].text = probe.history[k].text
            /\ turns[n + 1] = [role |-> "user", text |-> probe.message]
            /\ \A k \in 1..(n + 1) : turns[k].role \in {"user", "assistant"}

\* C20: an invocation makes at most one provider request; once the
\* request has settled, with a reply or with an error, the invocation never
\* waits for the provider again, and after an error it does nothing but
\* run its cooldown.
C20_SingleAttempt ==
    \A i \in DOMAIN cycles :
        LET cy == cycles[i]
        IN  /\ cy.calls <= 1
            /\ cy.pc \in {"provider", "body"} =>
                   (cy.calls = 1 /\ cy.outcome = "none")
            /\ cy.outcome = "error" =>
                   (cy.pc = "cooldown" /\ cy.request = NoRequest)

\* C20 witness: the one request of the invocation failed with a network
\* error and the cooldown runs.
C20_Witness ==
    /\ Len(cycles) = 1
    /\ cycles[1].calls = 1
    /\ cycles[1].outcome = "error"
    /\ cycles[1].error = <<"Failed to fetch">>
    /\ cycles[1].pc = "cooldown"

\* The stage of handleMessage an invocation is in: the first typing
\* indicator, the provider call, the pacer with its sends, the cooldown.
Stage(cy) ==
    CASE cy.pc = "typing" -> 1
      [] cy.pc \in {"provider", "body"} -> 2
      [] cy.pc \in {"partTyping", "partDelay", "sendTyping", "sendDelay"} -> 3
      [] cy.pc = "cooldown" -> 4

\* The history turns of a request: all its turns for gemini, all but the
\* last (the new message) for deepseek and openai.
HistoryOf(request) ==
    IF request.provider = "gemini" THEN request.turns
    ELSE SubSeq(request.turns, 1, Len(request.turns) - 1)

\* C21: an invocation goes through its stages in order: deBounce is set
\* from the start; during the first typing indicator nothing has been
\* requested or sent; the provider request carries the assembled history
\* and nothing is sent while it is out; messages are sent only after
\* generateReply returned; nothing is sent once the cooldown runs; and
\* deBounce is released only by the step that ends the cooldown.
C21_StepsInOrder ==
    /\ [](\A i \in DOMAIN cycles :
             LET cy == cycles[i]
             IN  /\ deBounce
                 /\ cy.pc = "typing" =>
                        /\ cy.calls = 0 /\ cy.request = NoRequest
                        /\ cy.outcome = "none" /\ cy.sent = <<>>
                        /\ cy.typings = {cy.channelId}
                 /\ cy.pc \in {"provider", "body"} =>
                        /\ cy.calls = 1 /\ cy.outcome = "none" /\ cy.sent = <<>>
                        /\ Last(HistoryOf(cy.request)).text = CustomInstructions
                 /\ cy.sent # <<>> => cy.outcome = "reply")
    /\ [][ /\ \A i \in DOMAIN cycles \cap DOMAIN cycles' :
                  /\ Stage(cycles'[i]) >= Stage(cycles[i])
                  /\ cycles'[i].sent # cycles[i].sent => Stage(cycles[i]) = 3
           /\ (deBounce /\ ~deBounce') =>
                  /\ Len(cycles) = 1 /\ cycles' = <<>>
                  /\ Stage(cycles[1]) = 4
         ]_vars

\* C21 witness: the typing indicator went out, the one provider request
\* returned, both paragraphs are sent and the cooldown runs with deBounce
\* still set.
C21_Witness ==
    /\ deBounce
    /\ Len(cycles) = 1
    /\ cycles[1].pc = "cooldown"
    /\ cycles[1].typings = {cycles[1].channelId}
    /\ cycles[1].calls = 1
    /\ cycles[1].outcome = "reply"
    /\ Len(cycles[1].sent) = 2

\* The number of the message an invocation in the pacer is working on.
Working(cy) ==
    IF cy.pc \in {"partTyping", "partDelay"}
    THEN Len(Paragraphs(cy.reply)) - Len(SelectSeq(cy.parts, NonBlank)) + 1
    ELSE 1

\* The invocation has just turned to its next message (or its first).
TurnsToMessage(old, new) ==
    /\ new.pc \in {"partTyping", "partDelay", "sendTyping", "sendDelay"}
    /\ \/ old.pc \notin {"partTyping", "partDelay", "sendTyping", "sendDelay"}
       \/ new.sent # old.sent

\* C22: the message an invocation is typing or waiting for is the one
\* after those already sent; a message is sent only by the step in which
\* its pacing delay ends; the delay is started only when the typing request
\* for that message has settled, or at once when showTyping is off; and
\* the typing request is issued only when showTyping is on.
C22_TypingDelaySend ==
    /\ [](\A i \in DOMAIN cycles :
             LET cy == cycles[i]
             IN  cy.pc \in {"partTyping", "partDelay", "sendTyping", "sendDelay"} =>
                     /\ Len(cy.sent) = Working(cy) - 1
                     /\ cy.pc \in {"partTyping", "partDelay"} =>
                            Head(cy.parts) = Paragraphs(cy.reply)[Working(cy)])
    /\ [][ \A i \in DOMAIN cycles \cap DOMAIN cycles' :
               LET old == cycles[i]
                   new == cycles'[i]
               IN  /\ new.sent # old.sent =>
                          /\ old.pc \in {"partDelay", "sendDelay"}
                          /\ new.sent = Append(old.sent,
                                 Outbound(old.channelId,
                                          IF old.pc = "partDelay"
                                          THEN Head(old.parts) ELSE old.reply))
                   /\ TurnsToMessage(old, new) =>
                          (new.pc \in {"partTyping", "sendTyping"} <=> settings.showTyping)
                   /\ (new.pc \in {"partDelay", "sendDelay"} /\ new.sent = old.sent
                          /\ old.pc \in {"partTyping", "partDelay", "sendTyping", "sendDelay"}) =>
                          \/ new = old
                          \/ /\ old.pc = "partTyping" /\ new.pc = "partDelay"
                          \/ /\ old.pc = "sendTyping" /\ new.pc = "sendDelay"
         ]_vars

\* C22 witness: the first paragraph is sent and the typing request for the
\* second is out.
C22_Witness ==
    /\ Len(cycles) = 1
    /\ cycles[1].pc = "partTyping"
    /\ Len(cycles[1].sent) = 1
    /\ Len(Paragraphs(cycles[1].reply)) = 2

\* The generate step of the invocation has failed, as the claims count it:
\* an error reached the catch block, or the provider identifier was
\* unknown (generateReply returned without a provider request).
GenerateFailed(cy) ==
    \/ cy.outcome = "error"
    \/ cy.outcome = "reply" /\ cy.calls = 0

\* C23 as claimed: an invocation whose generate step failed sends no
\* message.
C23_FailureSendsNothing ==
    \A i \in DOMAIN cycles :
        GenerateFailed(cycles[i]) => cycles[i].sent = <<>>

\* C24: the CSP dialog is shown at most once per invocation, and exactly
\* when the provider request failed with an error whose message has one of
\* the keywords; the invocation then ends as a failure with its single
\* request; errors thrown before the request show no dialog.
C24_CspDialogOnKeyword ==
    \A i \in DOMAIN cycles :
        LET cy == cycles[i]
        IN  /\ cy.csp <= 1
            /\ cy.csp = 1 <=> (cy.calls = 1 /\ cy.outcome = "error"
                                   /\ IsCspMessage(cy.error))
            /\ cy.csp = 1 => (cy.pc = "cooldown" /\ cy.sent = <<>>)
            /\ cy.error \in {MissingKeyMessage, EmptyContentMessage,
                              NoFirstTurnMessage} =>
                   (cy.csp = 0 /\ cy.calls = 0)

\* C24 witness: the request failed with "Failed to fetch"; the dialog and
\* the alert were shown and the cooldown runs.
C24_Witness ==
    /\ Len(cycles) = 1
    /\ cycles[1].error = <<"Failed to fetch">>
    /\ cycles[1].csp = 1
    /\ cycles[1].alerted
    /\ cycles[1].calls = 1
    /\ cycles[1].pc = "cooldown"

\* C25: makeAIRequest always resolves, never rejects: its value is a
\* success with the text (and no error) or a failure with an error (and no
\* text); for a provider identifier other than gemini, deepseek, openai
\* it is the failure "Unknown provider", with no SDK or fetch call.
C25_RequestAlwaysResolves ==
    (probe.fn = "makeAIRequest" /\ probe.pc = "done") =>
        /\ probe.result.kind = "return"
        /\ \/ probe.result.success /\ probe.result.error = NoError
           \/ /\ ~probe.result.success
              /\ probe.result.error # NoError
              /\ probe.result.text = <<>>
        /\ probe.response.kind = "throw" =>
               /\ ~probe.result.success
               /\ probe.result.error = ErrorString(probe.response.thrown)
        /\ probe.body.kind = "throw" =>
               /\ ~probe.result.success
               /\ probe.result.error = ErrorString(probe.body.thrown)
        /\ probe.provider \notin KnownProviders =>
               /\ ~probe.result.success
               /\ probe.result.error = <<"Unknown provider">>
               /\ probe.calls = 0
               /\ probe.request = NoRequest

\* C25 witness: the fetch call to deepseek threw and makeAIRequest
\* resolved to a failure with the error as a string.
C25_Witness ==
    /\ probe.fn = "makeAIRequest"
    /\ probe.provider = "deepseek"
    /\ probe.pc = "done"
    /\ probe.response.kind = "throw"
    /\ probe.result.kind = "return"
    /\ ~probe.result.success
    /\ probe.result.error = <<"TypeError", ": ", "Failed to fetch">>

\* C26 as claimed: makeAIRequest with an empty API key and a known
\* provider ends at once in a failure, without an SDK or fetch call.
C26_RequestNeedsKey ==
    (/\ probe.fn = "makeAIRequest"
     /\ probe.apiKey = ""
     /\ probe.provider \in KnownProviders
     /\ probe.pc # "call") =>
        /\ probe.pc = "done"
        /\ ~probe.result.success
        /\ probe.calls = 0

\* C27: an invocation's channel is that of the message that started it,
\* and every typing indicator and every message it sends goes to that
\* channel, whatever activeChannelId has become.
C27_AddressedToTriggerChannel ==
    /\ [](\A i \in DOMAIN cycles :
             LET cy == cycles[i]
             IN  /\ cy.typings \subseteq {cy.channelId}
                 /\ \A k \in DOMAIN cy.sent :
                        cy.sent[k].channelId = cy.channelId)
    /\ [][ \A i \in DOMAIN cycles' :
               /\ i \notin DOMAIN cycles =>
                      store'[cycles'[i].channelId] # store[cycles'[i].channelId]
               /\ (i \in DOMAIN cycles /\ Len(cycles') = Len(cycles)) =>
                      cycles'[i].channelId = cycles[i].channelId
         ]_vars

\* C27 witness: the invocation started in c1 has typed and sent its two
\* messages there and types for nothing else, while the focus is on c2.
C27_Witness ==
    /\ activeChannelId = "c2"
    /\ Len(cycles) = 1
    /\ cycles[1].channelId = "c1"
    /\ cycles[1].typings = {"c1"}
    /\ Len(cycles[1].sent) = 2
    /\ cycles[1].sent[2].channelId = "c1"

\* The invocation's provider request goes out in this step.
RequestGoesOut(i) ==
    /\ cycles'[i].pc = "provider"
    /\ i \in DOMAIN cycles => cycles[i].pc # "provider"

\* C28 as claimed: the history of the request is the window assembled at
\* that moment without the turn of the triggering message, followed by one
\* user turn with the custom instructions, and the triggering message's
\* text is the new message (for deepseek and openai: the last turn of the
\* messages array).
C28_TriggerLeftOut ==
    [][ \A i \in DOMAIN cycles' :
            RequestGoesOut(i) =>
                LET cy   == cycles'[i]
                    msgs == store'[cy.channelId]
                    h    == getMessageHistory(msgs, settings.historyLength).turns
                    p    == Len(SelectSeq(MapTurns(SubSeq(msgs, 1, cy.trigger)),
                                          NonEmptyTurn))
                IN  /\ msgs[cy.trigger].content = cy.content
                    /\ cy.request =
                           BuildRequest(settings.aiProvider, settings.apiKey,
                               Append(RemoveAt(h, p),
                                      [role |-> "user", text |-> CustomInstructions]),
                               cy.content)
      ]_vars

\* C29 as claimed: no message the plugin sends has empty or
\* whitespace-only content.
C29_NoBlankSend ==
    \A i \in DOMAIN cycles :
        \A k \in DOMAIN cycles[i].sent : NonBlank(cycles[i].sent[k].content)

\* C30: activeChannelId is null at load, after stop() and whenever no
\* handler is subscribed; it changes only by a CHANNEL_SELECT event, to
\* that event's channel, or by stop(), to null;
\* and an invocation starts only for a message in the channel that
\* activeChannelId names, so none starts before a CHANNEL_SELECT has come
\* since the last stop() or the load.
C30_FocusReference ==
    /\ activeChannelId = Null
    /\ [](~Listening => activeChannelId = Null)
    /\ [][ /\ activeChannelId' # activeChannelId =>
                  \/ \E ch \in Channels \cup {Null} : handleChannelSelect(ch)
                  \/ Stop
           /\ (subscribed /\ ~subscribed') => activeChannelId' = Null
           /\ Len(cycles') > Len(cycles) =>
                  /\ activeChannelId \in Channels
                  /\ Last(cycles').channelId = activeChannelId
         ]_vars

\* C30 witness: started and armed, a message of another user is in c1,
\* but no CHANNEL_SELECT has come: no invocation has started.
C30_Witness ==
    /\ subscribed /\ isStarted /\ settings.enabled
    /\ activeChannelId = Null
    /\ store["c1"] = <<[author |-> "other", content |-> <<"a">>]>>
    /\ cycles = <<>>
    /\ ~deBounce
    /\ ~hasShownError

====
